---- MODULE Spec2Model ----
(***************************************************************************)
(* Model of git_manager.py: the GitRepoManager session (clone, commit,     *)
(* push, pull, status), its URL authenticator, and the command-line main.  *)
(*                                                                         *)
(* Strings are sequences of one-character strings, so that slicing and     *)
(* concatenation are computed as the code computes them.                   *)
(***************************************************************************)
EXTENDS Naturals, Sequences, FiniteSets, TLC

VARIABLES
    config,             \* self.config (with self.repo_url): the loaded configuration
    repo,               \* self.repo: None or a handle on the working copy at target_dir
    disk,               \* the file system at target_dir (and the working copy there)
    last,               \* what the last call did and returned (observation only)
    authenticated_url   \* the value last returned by _get_authenticated_url()

vars == <<config, repo, disk, last, authenticated_url>>

----------------------------------------------------------------------------
(* Bounds of the model. *)

\* longest remainder of a URL after its prefix in the URL inputs
MaxTail == 2
\* longest username and longest password in the URL inputs
MaxCred == 2
\* most commits one working copy gains during a run
MaxCommits == 1
\* longest run of successful clone_repository calls that is counted
StreakCap == 2

----------------------------------------------------------------------------
(* Strings. *)

\* Python's None for an optional string: no string of characters equals it
None == <<"<None>">>

HTTPS == <<"h", "t", "t", "p", "s", ":", "/", "/">>
HTTP == <<"h", "t", "t", "p", ":", "/", "/">>

\* str.startswith
StartsWith(s, p) == Len(s) >= Len(p) /\ SubSeq(s, 1, Len(p)) = p

\* s[n:]
SliceFrom(s, n) == SubSeq(s, n + 1, Len(s))

\* Python truthiness of an optional string: None and "" are false
Truthy(s) == s # None /\ s # <<>>

SeqsUpTo(S, n) == UNION {[1..k -> S] : k \in 0..n}

----------------------------------------------------------------------------
(* GitRepoManager._get_authenticated_url *)

\* a slip in the slice: the http prefix length used for https URLs too
GetAuthenticatedUrl_WrongSlice(cfg) ==
    IF ~Truthy(cfg.username) \/ ~Truthy(cfg.password) THEN cfg.url
    ELSE IF StartsWith(cfg.url, HTTPS)
         THEN HTTPS \o cfg.username \o <<":">> \o cfg.password \o <<"@">>
                    \o SliceFrom(cfg.url, 7)
    ELSE IF StartsWith(cfg.url, HTTP)
         THEN HTTP \o cfg.username \o <<":">> \o cfg.password \o <<"@">>
                   \o SliceFrom(cfg.url, 7)
    ELSE cfg.url

\* a slip in the guard: "and" for "or", so one of the two credentials suffices
GetAuthenticatedUrl_AndGuard(cfg) ==
    IF ~Truthy(cfg.username) /\ ~Truthy(cfg.password) THEN cfg.url
    ELSE LET u == IF cfg.username = None THEN <<>> ELSE cfg.username
             p == IF cfg.password = None THEN <<>> ELSE cfg.password
         IN IF StartsWith(cfg.url, HTTPS)
            THEN HTTPS \o u \o <<":">> \o p \o <<"@">> \o SliceFrom(cfg.url, 8)
            ELSE IF StartsWith(cfg.url, HTTP)
            THEN HTTP \o u \o <<":">> \o p \o <<"@">> \o SliceFrom(cfg.url, 7)
            ELSE cfg.url

GetAuthenticatedUrl(cfg) ==
    IF ~Truthy(cfg.username) \/ ~Truthy(cfg.password) THEN cfg.url
    ELSE IF StartsWith(cfg.url, HTTPS)
         THEN HTTPS \o cfg.username \o <<":">> \o cfg.password \o <<"@">>
                    \o SliceFrom(cfg.url, 8)
    ELSE IF StartsWith(cfg.url, HTTP)
         THEN HTTP \o cfg.username \o <<":">> \o cfg.password \o <<"@">>
                   \o SliceFrom(cfg.url, 7)
    ELSE cfg.url

----------------------------------------------------------------------------
(* The working copy on disk and the session's view of it. *)

RemoteNames == {"origin", "backup"}

NoRemotes == [n \in RemoteNames |-> None]

\* target_dir does not exist, is a regular file, is a directory that is no
\* working copy ("dir"), or is a working copy ("repo").  remotes, user_name:
\* .git/config; staged, modified, untracked: index and working tree;
\* head, head_commits: the checked-out head and how far the branch advanced.
MkDisk(path, remotes, staged, modified, untracked, head, commits, user) ==
    [path |-> path, remotes |-> remotes, staged |-> staged,
     modified |-> modified, untracked |-> untracked, head |-> head,
     head_commits |-> commits, user_name |-> user]

PlainDisk(path) == MkDisk(path, NoRemotes, FALSE, FALSE, FALSE, "branch", 0, None)

\* what git clone leaves at target_dir: origin is the URL that was cloned
ClonedDisk(url) ==
    MkDisk("repo", [NoRemotes EXCEPT !["origin"] = url],
           FALSE, FALSE, FALSE, "branch", 0, None)

\* self.repo
NoRepo == "None"
RepoHandle == "Repo"

\* what a public method hands back: the disk and self.repo after the call,
\* the returned value ("True", "False", "None", "text", or "raised" when an
\* exception leaves the method), and the URL the engine contacted (or None)
Res(d, r, ret, net) == [disk |-> d, repo |-> r, ret |-> ret, net |-> net]

\* config.get('commit_settings', {}).get('auto_add_all', True)
AutoAddAll(cfg) == IF cfg.auto_add_all = "absent" THEN TRUE
                   ELSE cfg.auto_add_all = "true"

\* GitRepoManager._configure_git_user (name and email are written alike;
\* the model keeps the name)
ConfigureGitUser(d, cfg) ==
    IF Truthy(cfg.name) THEN [d EXCEPT !.user_name = cfg.name] ELSE d

\* GitRepoManager._ensure_repo_loaded.  Repo(path) raises NoSuchPathError
\* for a path that does not exist and InvalidGitRepositoryError for one
\* that is no working copy; only the latter is caught.
EnsureRepoLoaded(d, r, cfg) ==
    IF r # NoRepo THEN [disk |-> d, repo |-> r, ok |-> "True"]
    ELSE IF d.path = "repo"
         THEN [disk |-> ConfigureGitUser(d, cfg), repo |-> RepoHandle, ok |-> "True"]
    ELSE IF d.path = "absent"
         THEN [disk |-> d, repo |-> r, ok |-> "raised"]
    ELSE [disk |-> d, repo |-> r, ok |-> "False"]

\* a clone that never looks for a working copy already at target_dir
CloneRepository_AlwaysClone(d, r, cfg, force, engine) ==
    LET url == GetAuthenticatedUrl(cfg)
    IN IF d.path = "file" THEN Res(d, r, "False", None)
       ELSE IF engine = "fail" THEN Res(PlainDisk("absent"), r, "False", url)
       ELSE Res(ConfigureGitUser(ClonedDisk(url), cfg), RepoHandle, "True", url)

\* GitRepoManager.clone_repository; engine is how Repo.clone_from ends
CloneRepository(d, r, cfg, force, engine) ==
    IF d.path # "absent" /\ ~force
    THEN IF d.path = "repo"
         THEN Res(d, RepoHandle, "True", None)
         ELSE Res(d, r, "False", None)
    ELSE IF d.path = "file"
         \* shutil.rmtree of a regular file raises NotADirectoryError
         THEN Res(d, r, "False", None)
    ELSE LET url == GetAuthenticatedUrl(cfg)
         IN IF engine = "fail"
            THEN Res(PlainDisk("absent"), r, "False", url)
            ELSE Res(ConfigureGitUser(ClonedDisk(url), cfg), RepoHandle, "True", url)

\* repo.git.add(A=True): everything pending is staged
GitAddAll(d) ==
    [d EXCEPT !.staged = d.staged \/ d.modified \/ d.untracked,
              !.modified = FALSE, !.untracked = FALSE]

\* repo.is_dirty(): staged or modified tracked content (untracked files are
\* not counted by default)
IsDirty(d) == d.staged \/ d.modified

\* repo.index.commit(message): a commit object of the index becomes the head
IndexCommit(d) ==
    [d EXCEPT !.staged = FALSE, !.head_commits = d.head_commits + 1]

\* what a method returns when _ensure_repo_loaded did not answer True
NotLoaded(e, failure) ==
    Res(e.disk, e.repo, IF e.ok = "raised" THEN "raised" ELSE failure, None)

\* a commit without the check for pending changes
CommitChanges_NoCleanCheck(d, r, cfg, add_all) ==
    LET e == EnsureRepoLoaded(d, r, cfg)
    IN IF e.ok # "True" THEN NotLoaded(e, "False")
       ELSE IF e.disk.path # "repo" THEN Res(e.disk, e.repo, "False", None)
       ELSE LET addAll == IF add_all = "None" THEN AutoAddAll(cfg)
                          ELSE add_all = "True"
                d1 == IF addAll THEN GitAddAll(e.disk) ELSE e.disk
            IN Res(IndexCommit(d1), e.repo, "True", None)

\* GitRepoManager.commit_changes; add_all is "None", "True" or "False".
\* A handle whose directory is gone makes every engine call raise, which
\* the method catches.
CommitChanges(d, r, cfg, add_all) ==
    LET e == EnsureRepoLoaded(d, r, cfg)
    IN IF e.ok # "True" THEN NotLoaded(e, "False")
       ELSE IF e.disk.path # "repo" THEN Res(e.disk, e.repo, "False", None)
       ELSE LET addAll == IF add_all = "None" THEN AutoAddAll(cfg)
                          ELSE add_all = "True"
                d1 == IF addAll THEN GitAddAll(e.disk) ELSE e.disk
            IN IF ~IsDirty(d1) /\ ~d1.untracked
               THEN Res(d1, e.repo, "True", None)
               ELSE Res(IndexCommit(d1), e.repo, "True", None)

HasRemote(d, remote) == d.remotes[remote] # None

\* remote_obj.set_url(url)
SetUrl(d, remote, url) == [d EXCEPT !.remotes[remote] = url]

\* repo.create_remote(remote, url)
CreateRemote(d, remote, url) == [d EXCEPT !.remotes[remote] = url]

\* a push that leaves the URL of a remote it finds as it is
PushChanges_KeepUrl(d, r, cfg, remote, branch, engine) ==
    LET e == EnsureRepoLoaded(d, r, cfg)
    IN IF e.ok # "True" THEN NotLoaded(e, "False")
       ELSE IF e.disk.path # "repo" THEN Res(e.disk, e.repo, "False", None)
       ELSE IF branch = "None" /\ e.disk.head = "detached"
            THEN Res(e.disk, e.repo, "False", None)
       ELSE LET url == GetAuthenticatedUrl(cfg)
                d2 == IF HasRemote(e.disk, remote) THEN e.disk
                      ELSE CreateRemote(e.disk, remote, url)
            IN Res(d2, e.repo, IF engine = "ok" THEN "True" ELSE "False",
                   d2.remotes[remote])

\* GitRepoManager.push_changes; branch is "None" or "given", engine is how
\* remote_obj.push ends: "ok", "error_flag" (push_info flags ERROR) or
\* "raise" (GitCommandError).  The push contacts the URL the remote holds.
PushChanges(d, r, cfg, remote, branch, engine) ==
    LET e == EnsureRepoLoaded(d, r, cfg)
    IN IF e.ok # "True" THEN NotLoaded(e, "False")
       ELSE IF e.disk.path # "repo" THEN Res(e.disk, e.repo, "False", None)
       \* repo.active_branch raises TypeError on a detached head
       ELSE IF branch = "None" /\ e.disk.head = "detached"
            THEN Res(e.disk, e.repo, "False", None)
       ELSE LET url == GetAuthenticatedUrl(cfg)
                d2 == IF HasRemote(e.disk, remote)
                      THEN SetUrl(e.disk, remote, url)
                      ELSE CreateRemote(e.disk, remote, url)
            IN Res(d2, e.repo, IF engine = "ok" THEN "True" ELSE "False",
                   d2.remotes[remote])

\* GitRepoManager.get_status
GetStatus(d, r, cfg) ==
    LET e == EnsureRepoLoaded(d, r, cfg)
    IN IF e.ok # "True" THEN NotLoaded(e, "None")
       ELSE IF e.disk.path # "repo" THEN Res(e.disk, e.repo, "None", None)
       ELSE Res(e.disk, e.repo, "text", None)

\* a pull that makes the remote it misses, as push does
PullChanges_CreateRemote(d, r, cfg, remote, branch, engine) ==
    LET e == EnsureRepoLoaded(d, r, cfg)
    IN IF e.ok # "True" THEN NotLoaded(e, "False")
       ELSE IF e.disk.path # "repo" THEN Res(e.disk, e.repo, "False", None)
       ELSE IF branch = "None" /\ e.disk.head = "detached"
            THEN Res(e.disk, e.repo, "False", None)
       ELSE LET d2 == IF HasRemote(e.disk, remote) THEN e.disk
                      ELSE CreateRemote(e.disk, remote, GetAuthenticatedUrl(cfg))
                url == d2.remotes[remote]
            IN IF engine = "raise" THEN Res(d2, e.repo, "False", url)
               ELSE IF engine = "ff"
               THEN Res([d2 EXCEPT !.head_commits = d2.head_commits + 1],
                        e.repo, "True", url)
               ELSE Res(d2, e.repo, "True", url)

\* a pull that first rewrites the URL of the remote, as push does
PullChanges_SetUrl(d, r, cfg, remote, branch, engine) ==
    LET e == EnsureRepoLoaded(d, r, cfg)
    IN IF e.ok # "True" THEN NotLoaded(e, "False")
       ELSE IF e.disk.path # "repo" THEN Res(e.disk, e.repo, "False", None)
       ELSE IF branch = "None" /\ e.disk.head = "detached"
            THEN Res(e.disk, e.repo, "False", None)
       ELSE IF ~HasRemote(e.disk, remote)
            THEN Res(e.disk, e.repo, "False", None)
       ELSE LET d2 == SetUrl(e.disk, remote, GetAuthenticatedUrl(cfg))
                url == d2.remotes[remote]
            IN IF engine = "raise" THEN Res(d2, e.repo, "False", url)
               ELSE IF engine = "ff"
               THEN Res([d2 EXCEPT !.head_commits = d2.head_commits + 1],
                        e.repo, "True", url)
               ELSE Res(d2, e.repo, "True", url)

\* GitRepoManager.pull_changes; engine is how remote_obj.pull ends: "ok"
\* (already up to date), "ff" (the head advanced) or "raise".  repo.remote
\* raises ValueError for a name that is no remote; the pull contacts the URL
\* the remote holds.
PullChanges(d, r, cfg, remote, branch, engine) ==
    LET e == EnsureRepoLoaded(d, r, cfg)
    IN IF e.ok # "True" THEN NotLoaded(e, "False")
       ELSE IF e.disk.path # "repo" THEN Res(e.disk, e.repo, "False", None)
       ELSE IF branch = "None" /\ e.disk.head = "detached"
            THEN Res(e.disk, e.repo, "False", None)
       ELSE IF ~HasRemote(e.disk, remote)
            THEN Res(e.disk, e.repo, "False", None)
       ELSE LET url == e.disk.remotes[remote]
            IN IF engine = "raise" THEN Res(e.disk, e.repo, "False", url)
               ELSE IF engine = "ff"
               THEN Res([e.disk EXCEPT !.head_commits = e.disk.head_commits + 1],
                        e.repo, "True", url)
               ELSE Res(e.disk, e.repo, "True", url)

----------------------------------------------------------------------------
(* Configurations and initial disks. *)

MkConfig(url, username, password, name, auto_add_all) ==
    [url |-> url, username |-> username, password |-> password,
     name |-> name, auto_add_all |-> auto_add_all]

ExampleUrl == <<"h", "t", "t", "p", "s", ":", "/", "/", "e", "x", "a", "m", "p", "l", "e", ".", "c", "o", "m", "/", "r", "e", "p", "o", ".", "g", "i", "t">>
Alice == <<"a", "l", "i", "c", "e">>
S3cret == <<"s", "3", "c", "r", "e", "t">>
ExampleConfig == MkConfig(ExampleUrl, Alice, S3cret, None, "absent")

\* URL inputs of the authenticator: a prefix, then up to MaxTail characters
UrlPrefixes ==
    {HTTPS, HTTP, <<>>, <<"g", "i", "t", "@">>, <<"s", "s", "h", ":", "/", "/">>, <<"h", "t", "t", "p", "s", ":", "/">>, <<"H", "T", "T", "P", "S", ":", "/", "/">>, <<"f", "t", "p", ":", "/", "/">>}
UrlTails == SeqsUpTo({"e", "/"}, MaxTail)
UrlInputs == {p \o t : p \in UrlPrefixes, t \in UrlTails}
CredInputs == {None} \cup SeqsUpTo({"a", "@"}, MaxCred)

UrlConfigs ==
    {ExampleConfig} \cup
    {MkConfig(u, n, p, None, "absent") :
        u \in UrlInputs, n \in CredInputs, p \in CredInputs}

\* repositories and credentials of the sessions
HttpsRepo == HTTPS \o <<"h", "/", "r">>
SshRepo == <<"g", "i", "t", "@">> \o <<"h", ":", "r">>
RepoUrls == {HttpsRepo, SshRepo}
Bob == <<"b">>
Hunter2 == <<"p">>
Credentials == {<<None, None>>, <<<<"a">>, <<"s">>>>, <<Bob, Hunter2>>}
DevName == <<"d">>

Configs ==
    {MkConfig(u, c[1], c[2], n, a) :
        u \in RepoUrls, c \in Credentials, n \in {None, DevName},
        a \in {"absent", "false"}}

\* what may be at target_dir when the first session starts: nothing, a
\* file, a directory, or a working copy someone made (with or without an
\* origin, on a branch or on a detached head, with or without staged work)
InitDisks(url) ==
    {PlainDisk(p) : p \in {"absent", "file", "dir"}} \cup
    {MkDisk("repo", [NoRemotes EXCEPT !["origin"] = o], st, FALSE, FALSE, h, 0, None) :
        o \in {None, url}, st \in BOOLEAN, h \in {"branch", "detached"}}

\* The record kept of the last call: the method, its arguments remote and
\* force, what it returned, the URL the engine contacted, the URL the
\* remote held before the call (was), and how many successful
\* clone_repository calls in a row it ends (streak, counted up to StreakCap).
Obs(op, res, remote, force, was, streak) ==
    [op |-> op, ret |-> res.ret, net |-> res.net, remote |-> remote,
     force |-> force, was |-> was, streak |-> streak]

NoCall(op) ==
    [op |-> op, ret |-> "None", net |-> None, remote |-> "-",
     force |-> FALSE, was |-> None, streak |-> 0]

----------------------------------------------------------------------------
(* The authenticator alone: every configuration of UrlConfigs, one call. *)

InitUrl ==
    /\ config \in UrlConfigs
    /\ repo = NoRepo
    /\ disk = PlainDisk("absent")
    /\ last = NoCall("init")
    /\ authenticated_url = None

Authenticate ==
    /\ authenticated_url' = GetAuthenticatedUrl(config)
    /\ last' = NoCall("url")
    /\ UNCHANGED <<config, repo, disk>>

NextUrl == Authenticate

SpecUrl == InitUrl /\ [][NextUrl]_vars

----------------------------------------------------------------------------
(* One session after another on one target directory. *)

Init ==
    /\ config \in Configs
    /\ repo = NoRepo
    /\ disk \in InitDisks(config.url)
    /\ last = NoCall("init")
    /\ authenticated_url = None

\* GitRepoManager.__init__ in a later run of the program: the configuration
\* is read again, with the credentials it then holds (they may have been
\* rotated since), and nothing is bound
NewSession(username, password) ==
    /\ config' = [config EXCEPT !.username = username, !.password = password]
    /\ repo' = NoRepo
    /\ last' = NoCall("init")
    /\ UNCHANGED <<disk, authenticated_url>>

\* the caller writes into the working copy between calls: a new file
\* ("untracked") or more text in a tracked one ("modified")
EditFiles(kind) ==
    /\ disk.path = "repo"
    /\ disk' = [disk EXCEPT ![kind] = TRUE]
    /\ last' = NoCall("edit")
    /\ UNCHANGED <<config, repo, authenticated_url>>

Returned(op, res, remote, force) ==
    LET was == IF remote \in RemoteNames /\ disk.path = "repo"
               THEN disk.remotes[remote] ELSE None
        streak == IF op = "clone" /\ res.ret = "True"
                  THEN (IF last.streak < StreakCap THEN last.streak + 1
                        ELSE StreakCap)
                  ELSE 0
    IN /\ res.disk.head_commits <= MaxCommits
       /\ disk' = res.disk
       /\ repo' = res.repo
       /\ last' = Obs(op, res, remote, force, was, streak)
       /\ UNCHANGED <<config, authenticated_url>>

Clone(force, engine) ==
    \E res \in {CloneRepository(disk, repo, config, force, engine)} :
        Returned("clone", res, "-", force)

Commit(add_all) ==
    \E res \in {CommitChanges(disk, repo, config, add_all)} :
        Returned("commit", res, "-", FALSE)

Push(remote, branch, engine) ==
    \E res \in {PushChanges(disk, repo, config, remote, branch, engine)} :
        Returned("push", res, remote, FALSE)

Pull(remote, branch, engine) ==
    \E res \in {PullChanges(disk, repo, config, remote, branch, engine)} :
        Returned("pull", res, remote, FALSE)

Status ==
    \E res \in {GetStatus(disk, repo, config)} :
        Returned("status", res, "-", FALSE)

Next ==
    \/ \E c \in Credentials : NewSession(c[1], c[2])
    \/ \E kind \in {"untracked", "modified"} : EditFiles(kind)
    \/ \E force \in BOOLEAN, engine \in {"ok", "fail"} : Clone(force, engine)
    \/ \E add_all \in {"None", "True", "False"} : Commit(add_all)
    \/ \E remote \in RemoteNames, branch \in {"None", "given"},
          engine \in {"ok", "error_flag", "raise"} : Push(remote, branch, engine)
    \/ \E remote \in RemoteNames, branch \in {"None", "given"},
          engine \in {"ok", "ff", "raise"} : Pull(remote, branch, engine)
    \/ Status

Spec == Init /\ [][Next]_vars

----------------------------------------------------------------------------
(* The command line: one run of main() after another. *)

\* the parsed arguments: --commit carries its message (None when absent)
CliArgs ==
    [clone : BOOLEAN, force_clone : BOOLEAN, commit : {None, <<>>, <<"m">>},
     push : BOOLEAN, pull : BOOLEAN, status : BOOLEAN]

\* how the engine's network calls of one run end
CliEngines ==
    [clone : {"ok", "fail"}, pull : {"ok", "ff", "raise"},
     push : {"ok", "error_flag", "raise"}]

\* main() after clone, pull, commit or push returned res: sys.exit(1) unless
\* it returned True (an exception that left the method reaches main's
\* except clause, which exits 1 too)
AfterCall(st, res) ==
    [st EXCEPT !.disk = res.disk, !.repo = res.repo,
               !.running = (res.ret = "True"),
               !.code = IF res.ret = "True" THEN 0 ELSE 1,
               !.failed = st.failed \/ res.ret # "True"]

\* main() after get_status returned res: the text is printed if there is
\* one, and the run goes on either way
AfterStatus(st, res) ==
    IF res.ret = "raised"
    THEN [st EXCEPT !.disk = res.disk, !.repo = res.repo, !.running = FALSE,
                    !.code = 1, !.failed = TRUE]
    ELSE [st EXCEPT !.disk = res.disk, !.repo = res.repo,
                    !.failed = st.failed \/ res.ret = "None",
                    !.printed = (res.ret = "text")]

\* the steps of main(), each on the run so far
RunClone(st, cfg, args, eng) ==
    IF st.running /\ (args.clone \/ args.force_clone)
    THEN AfterCall(st, CloneRepository(st.disk, st.repo, cfg,
                                       args.force_clone, eng.clone))
    ELSE st

RunPull(st, cfg, args, eng) ==
    IF st.running /\ args.pull
    THEN AfterCall(st, PullChanges(st.disk, st.repo, cfg, "origin", "None",
                                   eng.pull))
    ELSE st

RunCommit(st, cfg, args) ==
    IF st.running /\ Truthy(args.commit)
    THEN AfterCall(st, CommitChanges(st.disk, st.repo, cfg, "None"))
    ELSE st

RunPush(st, cfg, args, eng) ==
    IF st.running /\ args.push
    THEN AfterCall(st, PushChanges(st.disk, st.repo, cfg, "origin", "None",
                                   eng.push))
    ELSE st

RunStatus(st, cfg, args) ==
    IF st.running /\ args.status
    THEN AfterStatus(st, GetStatus(st.disk, st.repo, cfg))
    ELSE st

RunHelp(st, args) ==
    IF st.running /\ ~(args.clone \/ args.force_clone \/ Truthy(args.commit)
                         \/ args.push \/ args.pull \/ args.status)
    THEN [st EXCEPT !.help = TRUE]
    ELSE st

\* main(): a new GitRepoManager, then the requested calls in the order
\* clone, pull, commit, push, status; the help text when nothing was asked
Main(d, cfg, args, eng) ==
    LET s0 == {[disk |-> d, repo |-> NoRepo, running |-> TRUE, code |-> 0,
                failed |-> FALSE, printed |-> FALSE, help |-> FALSE]}
        s1 == {RunClone(st, cfg, args, eng) : st \in s0}
        s2 == {RunPull(st, cfg, args, eng) : st \in s1}
        s3 == {RunCommit(st, cfg, args) : st \in s2}
        s4 == {RunPush(st, cfg, args, eng) : st \in s3}
        s5 == {RunStatus(st, cfg, args) : st \in s4}
    IN CHOOSE end \in {RunHelp(st, args) : st \in s5} : TRUE

\* the engine calls a run with these arguments can reach
EnginesOf(args) ==
    {eng \in CliEngines :
        /\ (args.clone \/ args.force_clone) \/ eng.clone = "ok"
        /\ args.pull \/ eng.pull = "ok"
        /\ args.push \/ eng.push = "ok"}

\* the configurations of the command-line runs
CliConfigs == {c \in Configs : c.name = DevName /\ c.auto_add_all = "absent"}

InitCli ==
    /\ config \in CliConfigs
    /\ repo = NoRepo
    /\ disk \in InitDisks(config.url)
    /\ last = NoCall("init")
    /\ authenticated_url = None

\* one run of the program, from its start to its exit
MainRun(args, eng) ==
    \E m \in {Main(disk, config, args, eng)} :
       /\ m.disk.head_commits <= MaxCommits
       /\ disk' = m.disk
       /\ repo' = NoRepo
       /\ last' = [op |-> "main", exit |-> m.code, failed |-> m.failed,
                   help |-> m.help, printed |-> m.printed,
                   noflags |-> (~args.clone /\ ~args.force_clone
                                /\ args.commit = None /\ ~args.push
                                /\ ~args.pull /\ ~args.status)]
       /\ UNCHANGED <<config, authenticated_url>>

NextCli ==
    \/ \E args \in CliArgs : \E eng \in EnginesOf(args) : MainRun(args, eng)
    \/ \E kind \in {"untracked", "modified"} : EditFiles(kind)

SpecCli == InitCli /\ [][NextCli]_vars

----------------------------------------------------------------------------
(* Claims about the authenticator (checked under SpecUrl). *)

SchemeSep == <<":", "/", "/">>

\* the index of the last character of the first "://" of url (0 if none)
SepEnd(url) ==
    LET ends == {i \in 3..Len(url) : SubSeq(url, i - 2, i) = SchemeSep}
    IN IF ends = {} THEN 0 ELSE CHOOSE i \in ends : \A j \in ends : i <= j

\* s without the n characters that follow its first k characters
RemoveAfter(s, k, n) == SubSeq(s, 1, k) \o SubSeq(s, k + n + 1, Len(s))

IsHttpUrl(url) == StartsWith(url, HTTPS) \/ StartsWith(url, HTTP)

HasCredentials(cfg) == Truthy(cfg.username) /\ Truthy(cfg.password)

\* C1: for a base URL that begins https:// or http:// and a non-empty
\* username and password, the returned URL is the base URL with
\* username:password@ inserted right after the "://", and taking that
\* segment out again gives the base URL.
C1_CredentialsInserted ==
    (last.op = "url" /\ IsHttpUrl(config.url) /\ HasCredentials(config)) =>
        LET k == SepEnd(config.url)
            seg == config.username \o <<":">> \o config.password \o <<"@">>
        IN /\ authenticated_url =
                  SubSeq(config.url, 1, k) \o seg \o SliceFrom(config.url, k)
           /\ RemoveAfter(authenticated_url, k, Len(seg)) = config.url

C1_Witness ==
    /\ last.op = "url"
    /\ config = ExampleConfig
    /\ authenticated_url = <<"h", "t", "t", "p", "s", ":", "/", "/", "a", "l", "i", "c", "e", ":", "s", "3", "c", "r", "e", "t", "@", "e", "x", "a", "m", "p", "l", "e", ".", "c", "o", "m", "/", "r", "e", "p", "o", ".", "g", "i", "t">>

\* C2: the base URL is returned unchanged when the username or the password
\* is missing or empty, and when the base URL begins with neither http://
\* nor https://, credentials or not.
C2_UnchangedOtherwise ==
    (last.op = "url" /\ (~HasCredentials(config) \/ ~IsHttpUrl(config.url))) =>
        authenticated_url = config.url

C2_Witness ==
    /\ last.op = "url"
    /\ HasCredentials(config)
    /\ StartsWith(config.url, <<"s", "s", "h", ":", "/", "/">>)
    /\ authenticated_url = config.url

C2_WitnessNoPassword ==
    /\ last.op = "url"
    /\ StartsWith(config.url, HTTPS)
    /\ Truthy(config.username)
    /\ config.password \in {None, <<>>}
    /\ authenticated_url = config.url

----------------------------------------------------------------------------
(* Claims about the session (checked under Spec). *)

\* C3: when the engine push of push_changes runs, the named remote exists
\* and holds the authenticated URL of the current configuration, whether
\* the call created the remote or overwrote the URL it held.
C3_PushContactsCurrentUrl ==
    (last.op = "push" /\ last.net # None) =>
        /\ disk.path = "repo"
        /\ HasRemote(disk, last.remote)
        /\ disk.remotes[last.remote] = GetAuthenticatedUrl(config)
        /\ last.net = GetAuthenticatedUrl(config)

\* a push that overwrote the URL an earlier call left with other credentials
C3_Witness ==
    /\ last.op = "push"
    /\ last.ret = "True"
    /\ HasCredentials(config)
    /\ last.was # None
    /\ last.was # config.url
    /\ last.was # last.net
    /\ last.net = GetAuthenticatedUrl(config)

\* a push that created the remote it did not find
C3_WitnessCreated ==
    /\ last.op = "push"
    /\ last.was = None
    /\ last.net # None
    /\ disk.remotes[last.remote] = GetAuthenticatedUrl(config)

\* C4: pull_changes on a working copy without the named remote returns
\* False, and no pull_changes call changes the remotes of the working copy.
C4_PullNeverCreatesRemote ==
    [][last'.op = "pull" =>
          /\ disk'.remotes = disk.remotes
          /\ (disk.path = "repo" /\ ~HasRemote(disk, last'.remote))
                => last'.ret = "False"]_vars

\* a pull that got as far as looking the remote up and did not find it
C4_Witness ==
    /\ last.op = "pull"
    /\ last.ret = "False"
    /\ repo = RepoHandle
    /\ disk.path = "repo"
    /\ disk.head = "branch"
    /\ ~HasRemote(disk, last.remote)

Clean(d) == ~d.staged /\ ~d.modified /\ ~d.untracked

\* C5: commit_changes on a working copy with nothing staged, modified or
\* untracked returns True and leaves the head where it was, whatever
\* add_all and auto_add_all are.
C5_CleanCommitIsNoOp ==
    [][(last'.op = "commit" /\ disk.path = "repo" /\ Clean(disk)) =>
          /\ last'.ret = "True"
          /\ disk'.head_commits = disk.head_commits
          /\ Clean(disk')]_vars

\* a commit call that returned True on a working copy whose head never moved
C5_Witness ==
    /\ last.op = "commit"
    /\ last.ret = "True"
    /\ disk.path = "repo"
    /\ Clean(disk)
    /\ disk.head_commits = 0
    /\ config.auto_add_all = "false"

\* C6: after a clone_repository that returned True, a clone_repository
\* without force returns True, contacts no URL and leaves the disk as it is.
C6_RebindIsNoOp ==
    [][(last.op = "clone" /\ last.ret = "True"
            /\ last'.op = "clone" /\ ~last'.force) =>
          /\ last'.ret = "True"
          /\ last'.net = None
          /\ disk' = disk]_vars

\* a second successful clone_repository in a row, made without force
C6_Witness ==
    /\ last.op = "clone"
    /\ last.streak = 2
    /\ ~last.force
    /\ last.ret = "True"
    /\ last.net = None
    /\ disk.path = "repo"

\* C7: commit, push, pull and status on a session that cannot bind a
\* working copy report failure (False, or None for status); no exception
\* leaves the method.
C7_UnboundFailureIsReported ==
    (last.op \in {"commit", "push", "pull", "status"} /\ repo = NoRepo) =>
        last.ret = (IF last.op = "status" THEN "None" ELSE "False")

\* t occurs in s as a run of consecutive characters
Infix(t, s) ==
    \E i \in 0..(Len(s) - Len(t)) : SubSeq(s, i + 1, i + Len(t)) = t

\* url carries a username:password@ of some configuration
CarriesCredentials(url) ==
    /\ url # None
    /\ \E c \in Credentials :
          /\ Truthy(c[1]) /\ Truthy(c[2])
          /\ Infix(c[1] \o <<":">> \o c[2] \o <<"@">>, url)

\* C8 as claimed: no remote descriptor of the working copy on disk holds
\* the credentials.
C8_NoCredentialsOnDisk ==
    disk.path = "repo" => \A n \in RemoteNames : ~CarriesCredentials(disk.remotes[n])

\* C8 as amended: credentials reach the disk only as the URL of a remote
\* descriptor written by clone_repository or push_changes, and that URL is
\* the authenticated URL of the current configuration, the one the call
\* contacts; commit, pull and status write no credentials.
C8_CredentialsOnlyInRemoteUrl ==
    [][\A n \in RemoteNames :
          (/\ disk'.path = "repo"
           /\ (disk.path # "repo" \/ disk.remotes[n] # disk'.remotes[n])
           /\ CarriesCredentials(disk'.remotes[n])) =>
             /\ last'.op \in {"clone", "push"}
             /\ disk'.remotes[n] = GetAuthenticatedUrl(config)
             /\ last'.net = disk'.remotes[n]]_vars

\* a clone that left the credentials in the URL of origin
C8_Witness ==
    /\ last.op = "clone"
    /\ last.ret = "True"
    /\ last.net # None
    /\ disk.path = "repo"
    /\ CarriesCredentials(disk.remotes["origin"])

\* C10 as claimed: a bound session has a working copy at target_dir.
C10_BoundHasWorkingCopy ==
    repo = RepoHandle => disk.path = "repo"

\* the rest of C10: within a session, self.repo never goes back to None
C10_NeverUnbound ==
    [][(repo = RepoHandle /\ last'.op # "init") => repo' = RepoHandle]_vars

\* url carries a username:password@ that is not the one of cfg
CarriesOtherCredentials(url, cfg) ==
    /\ CarriesCredentials(url)
    /\ ~(HasCredentials(cfg)
           /\ Infix(cfg.username \o <<":">> \o cfg.password \o <<"@">>, url))

\* C11: a push_changes or pull_changes call that reaches the network uses
\* the authenticated URL recomputed from the current configuration, so it
\* never contacts the remote through a URL that carries credentials the
\* configuration no longer holds.
C11_NoStaleCredentials ==
    (last.op \in {"push", "pull"} /\ last.net # None) =>
        ~CarriesOtherCredentials(last.net, config)

\* C11, first half alone: the URL contacted is the authenticated URL of the
\* current configuration
C11_NetworkUsesCurrentUrl ==
    (last.op \in {"push", "pull"} /\ last.net # None) =>
        last.net = GetAuthenticatedUrl(config)

\* the part of C11 the code keeps: a pull contacts the URL the remote held
\* before the call, whatever the configuration now says
C11_PullContactsStoredUrl ==
    (last.op = "pull" /\ last.net # None) =>
        (last.net = last.was /\ disk.remotes[last.remote] = last.was)

\* a pull made through a URL with credentials the configuration has dropped
C11_StalePull ==
    /\ last.op = "pull"
    /\ last.net # None
    /\ CarriesCredentials(last.net)
    /\ last.net # GetAuthenticatedUrl(config)

----------------------------------------------------------------------------
(* Claims about the command line (checked under SpecCli). *)

\* C9: a run in which a requested operation failed (clone, pull, commit or
\* push returned False, or status returned None) exits non-zero, and a run
\* without operation flags prints the help text and exits 0.
C9_FailureExitsNonZero ==
    last.op = "main" =>
        /\ last.failed => last.exit # 0
        /\ last.noflags => (last.help /\ last.exit = 0)

\* the part of C9 the code keeps: a run without operation flags prints the
\* help text and exits 0
C9_HelpWhenNoFlags ==
    (last.op = "main" /\ last.noflags) => (last.help /\ last.exit = 0)

====
